---- MODULE Spec2Model ----
(***************************************************************************)
(* Model of the single-dispatch Vulkan compute application of              *)
(* src/src/main.cpp: the step sequence of ComputeApplication::run(), the   *)
(* VK_CHECK_RESULT error check, the seed upload of runCommandBuffer() and  *)
(* the exit paths of main().  The methods that main.cpp calls but does not *)
(* show (createInstance, findPhysicalDevice, createDevice, createBuffer,   *)
(* findMemoryType, createComputePipeline, createCommandBuffer, the rest of *)
(* runCommandBuffer, saveRenderedImage, cleanup) are modelled from spec.md *)
(* sections 4 and 5.                                                       *)
(***************************************************************************)
EXTENDS Integers, Sequences, FiniteSets, TLC

VARIABLES
    NDEBUG,      \* build configuration: TRUE = release (assert compiled out)
    hw,          \* what the device reports: memoryTypeBits and memoryTypes[]
    step,        \* position in run(): index of the next step of RunSteps
    status,      \* "running", "thrown", "aborted", "crashed", "exit_success", "exit_failure"
    handle,      \* each Vulkan handle / host mapping: "none", "alive", "destroyed"
    bound,       \* buffers that have device memory bound
    bindings,    \* contents of the descriptor set: binding number -> buffer
    seedData,    \* contents of the seed buffer
    gpu,         \* the device queue: "idle", "running", "complete", "lost"
    gpuSeed,     \* the seed buffer contents at the time of submission
    groups,      \* workgroup counts of the recorded dispatch
    overlap,     \* the host read the output buffer while the GPU was running
    saved,       \* the image file has been written
    logged,      \* number of "Fatal: VkResult is ..." lines printed
    faults,      \* number of API calls that returned a non-success status so far
    trace,       \* the calls made so far, in order
    clock,       \* SpecSeed: the high-resolution clock's tick count (64 bit)
    readings,    \* SpecSeed: the (tick count, seed) pairs of the generateSeed() calls
    dims,        \* SpecDispatch: the image size
    counts,      \* SpecDispatch: the workgroup counts computed for dims
    query,       \* SpecMemType: memoryTypeBits, requested properties, memoryTypes[]
    answer       \* SpecMemType: what findMemoryType returned

mainVars == <<NDEBUG, hw, step, status, handle, bound, bindings, seedData, gpu,
              gpuSeed, groups, overlap, saved, logged, faults, trace>>
sideVars == <<clock, readings, dims, counts, query, answer>>
vars == <<mainVars, sideVars>>

(***************************************************************************)
(* Program constants.                                                      *)
(***************************************************************************)
WIDTH == 3200
HEIGHT == 2400
WORKGROUP_SIZE == 32
seedBufferSize == 4

VK_MEMORY_PROPERTY_DEVICE_LOCAL_BIT == 1
VK_MEMORY_PROPERTY_HOST_VISIBLE_BIT == 2
VK_MEMORY_PROPERTY_HOST_COHERENT_BIT == 4

(***************************************************************************)
(* Bounds of the model.                                                    *)
(***************************************************************************)
MaxFaults == 1      \* API calls that return a non-success status in one run
MaxMemTypes == 3    \* entries of memoryTypes[] in SpecMemType
MaxDim == 40        \* image sizes 1..MaxDim (and WIDTH, HEIGHT) in SpecDispatch
MaxTicks == 3       \* clock advances in SpecSeed
MaxCalls == 2       \* generateSeed() calls in SpecSeed

(***************************************************************************)
(* Bit masks as naturals.                                                  *)
(***************************************************************************)
RECURSIVE BitAnd(_, _)
BitAnd(a, b) ==
    IF a = 0 \/ b = 0 THEN 0
    ELSE (IF a % 2 = 1 /\ b % 2 = 1 THEN 1 ELSE 0) + 2 * BitAnd(a \div 2, b \div 2)

HostVisibleCoherent ==
    VK_MEMORY_PROPERTY_HOST_VISIBLE_BIT + VK_MEMORY_PROPERTY_HOST_COHERENT_BIT

(***************************************************************************)
(* findMemoryType(memoryTypeBits, properties) over the device's table      *)
(* memoryTypes[0 .. count-1] (here a sequence, index i at position i+1):   *)
(* scan in hardware-reported order, return the first qualifying index.     *)
(***************************************************************************)
NoMemoryType == -1

RECURSIVE ScanFrom(_, _, _, _)
ScanFrom(i, typeBits, properties, memTypes) ==
    IF i >= Len(memTypes) THEN NoMemoryType
    ELSE IF /\ BitAnd(typeBits, 2^i) # 0
            /\ BitAnd(memTypes[i + 1], properties) = properties
         THEN i
         ELSE ScanFrom(i + 1, typeBits, properties, memTypes)

RECURSIVE ScanDown(_, _, _, _)
ScanDown(i, typeBits, properties, memTypes) ==
    IF i < 0 THEN NoMemoryType
    ELSE IF /\ BitAnd(typeBits, 2^i) # 0
            /\ BitAnd(memTypes[i + 1], properties) # 0
         THEN i
         ELSE ScanDown(i - 1, typeBits, properties, memTypes)

findMemoryType_anyFlag(typeBits, properties, memTypes) ==
    ScanDown(Len(memTypes) - 1, typeBits, properties, memTypes)

findMemoryType(typeBits, properties, memTypes) ==
    ScanFrom(0, typeBits, properties, memTypes)

(***************************************************************************)
(* generateSeed(): the clock's tick count is a 64-bit integer, held here   *)
(* as four 16-bit limbs, least significant first; the conversion to        *)
(* uint32_t keeps the low 32 bits, i.e. the two low limbs.                 *)
(***************************************************************************)
LimbBase == 2^16

generateSeed_u16(ticks) == <<ticks[1], 0>>

generateSeed(ticks) == <<ticks[1], ticks[2]>>

(***************************************************************************)
(* Workgroup count of the dispatch along one axis: ceil(size / local).     *)
(***************************************************************************)
GroupCount_floor(size, local) == size \div local

GroupCount(size, local) ==
    IF size % local = 0 THEN size \div local ELSE (size \div local) + 1

DispatchGroups(w, h) ==
    <<GroupCount(w, WORKGROUP_SIZE), GroupCount(h, WORKGROUP_SIZE)>>

(***************************************************************************)
(* The handles of ComputeApplication (main.cpp lines 41-63) and the two    *)
(* host mappings ("data" of runCommandBuffer, the read-back mapping).      *)
(***************************************************************************)
Handles ==
    {"instance", "debugReportCallback", "physicalDevice", "device", "queue",
     "buffer", "bufferMemory", "seedBuffer", "seedBufferMemory",
     "descriptorSetLayout", "descriptorPool", "descriptorSet",
     "computeShaderModule", "pipelineLayout", "pipeline",
     "commandPool", "commandBuffer", "seedMapping", "bufferMapping"}

enableValidationLayers == ~NDEBUG

(***************************************************************************)
(* One call of a method body: the handles it is given, the handles it      *)
(* creates and destroys, whether it returns a VkResult (canFail), whether  *)
(* the result goes through VK_CHECK_RESULT (checked), and its effect on    *)
(* the rest of the state.                                                  *)
(***************************************************************************)
Call(api, uses, makes, kills, canFail, checked, effect) ==
    [api |-> api, uses |-> uses, makes |-> makes, kills |-> kills,
     canFail |-> canFail, checked |-> checked, effect |-> effect]

Checked(api, uses, makes, effect) == Call(api, uses, makes, {}, TRUE, TRUE, effect)
Void(api, uses, makes, effect) == Call(api, uses, makes, {}, FALSE, FALSE, effect)
Destroy(api, uses, kills) == Call(api, uses, {}, kills, FALSE, FALSE, "none")

createInstanceBody ==
    <<Checked("vkCreateInstance", {}, {"instance"}, "none")>>
    \o (IF enableValidationLayers
        THEN <<Checked("vkCreateDebugReportCallbackEXT", {"instance"},
                       {"debugReportCallback"}, "none")>>
        ELSE <<>>)

findPhysicalDeviceBody ==
    <<Checked("vkEnumeratePhysicalDevices", {"instance"}, {"physicalDevice"}, "none")>>

createDeviceBody ==
    <<Checked("vkCreateDevice", {"physicalDevice"}, {"device"}, "none"),
      Void("vkGetDeviceQueue", {"device"}, {"queue"}, "none")>>

BufferBody(buf, mem) ==
    <<Checked("vkCreateBuffer", {"device"}, {buf}, "none"),
      Void("vkGetBufferMemoryRequirements", {"device", buf}, {}, "memReq"),
      Void("findMemoryType", {"physicalDevice"}, {}, "findMemoryType"),
      Checked("vkAllocateMemory", {"device"}, {mem}, "none"),
      Checked("vkBindBufferMemory", {"device", buf, mem}, {}, "bind")>>

createBufferBody == BufferBody("buffer", "bufferMemory")

createSeedBufferBody == BufferBody("seedBuffer", "seedBufferMemory")

createDescriptorSetLayoutBody ==
    <<Checked("vkCreateDescriptorSetLayout", {"device"}, {"descriptorSetLayout"}, "none")>>

createDescriptorSetBody ==
    <<Checked("vkCreateDescriptorPool", {"device"}, {"descriptorPool"}, "none"),
      Checked("vkAllocateDescriptorSets",
              {"device", "descriptorPool", "descriptorSetLayout"}, {"descriptorSet"}, "none"),
      Void("vkUpdateDescriptorSets",
           {"device", "descriptorSet", "buffer", "seedBuffer"}, {}, "updateDescriptors")>>

createComputePipelineBody ==
    <<Checked("vkCreateShaderModule", {"device"}, {"computeShaderModule"}, "none"),
      Checked("vkCreatePipelineLayout", {"device", "descriptorSetLayout"},
              {"pipelineLayout"}, "none"),
      Checked("vkCreateComputePipelines",
              {"device", "computeShaderModule", "pipelineLayout"}, {"pipeline"}, "none")>>

createCommandBufferBody ==
    <<Checked("vkCreateCommandPool", {"device"}, {"commandPool"}, "none"),
      Checked("vkAllocateCommandBuffers", {"device", "commandPool"}, {"commandBuffer"}, "none"),
      Checked("vkBeginCommandBuffer", {"commandBuffer"}, {}, "none")>>

\* main.cpp lines 179-183: the result of vkMapMemory is not checked.
uploadSeed ==
    <<Call("vkMapMemory", {"device", "seedBufferMemory"}, {"seedMapping"}, {},
           TRUE, FALSE, "none"),
      Void("memcpy", {"seedMapping"}, {}, "writeSeed"),
      Call("vkUnmapMemory", {"device", "seedBufferMemory"}, {}, {"seedMapping"},
           FALSE, FALSE, "none")>>

\* main.cpp line 185, "Other command buffer operations": spec.md section 4.5.
recordSubmitWait ==
    <<Void("vkCmdBindPipeline", {"commandBuffer", "pipeline"}, {}, "none"),
      Void("vkCmdBindDescriptorSets",
           {"commandBuffer", "pipelineLayout", "descriptorSet"}, {}, "none"),
      Void("vkCmdDispatch", {"commandBuffer"}, {}, "dispatch"),
      Checked("vkEndCommandBuffer", {"commandBuffer"}, {}, "none"),
      Checked("vkQueueSubmit", {"queue", "commandBuffer"}, {}, "submit"),
      Checked("vkQueueWaitIdle", {"queue"}, {}, "wait")>>

runCommandBuffer_lateSeed == recordSubmitWait \o uploadSeed

runCommandBufferBody == uploadSeed \o recordSubmitWait

saveRenderedImageBody ==
    <<Checked("vkMapMemory", {"device", "bufferMemory"}, {"bufferMapping"}, "none"),
      Void("readPixels", {"bufferMapping"}, {}, "readOutput"),
      Call("vkUnmapMemory", {"device", "bufferMemory"}, {}, {"bufferMapping"},
           FALSE, FALSE, "none"),
      Void("encodeImage", {}, {}, "save")>>

\* spec.md section 5: strict reverse-dependency order.
cleanupBody ==
    <<Destroy("vkDestroyCommandPool", {"device", "commandPool"},
              {"commandPool", "commandBuffer"}),
      Destroy("vkDestroyPipeline", {"device", "pipeline"}, {"pipeline"}),
      Destroy("vkDestroyPipelineLayout", {"device", "pipelineLayout"}, {"pipelineLayout"}),
      Destroy("vkDestroyShaderModule", {"device", "computeShaderModule"},
              {"computeShaderModule"}),
      Destroy("vkDestroyDescriptorPool", {"device", "descriptorPool"},
              {"descriptorPool", "descriptorSet"}),
      Destroy("vkDestroyDescriptorSetLayout", {"device", "descriptorSetLayout"},
              {"descriptorSetLayout"}),
      Destroy("vkDestroyBuffer", {"device", "seedBuffer"}, {"seedBuffer"}),
      Destroy("vkFreeMemory", {"device", "seedBufferMemory"}, {"seedBufferMemory"}),
      Destroy("vkDestroyBuffer", {"device", "buffer"}, {"buffer"}),
      Destroy("vkFreeMemory", {"device", "bufferMemory"}, {"bufferMemory"}),
      Destroy("vkDestroyDevice", {"device"}, {"device", "queue"})>>
    \o
    (IF enableValidationLayers
     THEN <<Destroy("vkDestroyDebugReportCallbackEXT",
                    {"instance", "debugReportCallback"}, {"debugReportCallback"})>>
     ELSE <<>>)
    \o
    <<Destroy("vkDestroyInstance", {"instance"}, {"instance", "physicalDevice"})>>

(***************************************************************************)
(* ComputeApplication::run(), main.cpp lines 66-80: the steps in order.    *)
(***************************************************************************)
RunSteps_cleanupBeforeSave ==
    <<"createInstance", "findPhysicalDevice", "createDevice", "createBuffer",
      "createSeedBuffer", "createDescriptorSetLayout", "createDescriptorSet",
      "createComputePipeline", "createCommandBuffer", "runCommandBuffer",
      "cleanup", "saveRenderedImage">>

RunSteps ==
    <<"createInstance", "findPhysicalDevice", "createDevice", "createBuffer",
      "createSeedBuffer", "createDescriptorSetLayout", "createDescriptorSet",
      "createComputePipeline", "createCommandBuffer", "runCommandBuffer",
      "saveRenderedImage", "cleanup">>

(***************************************************************************)
(* VK_CHECK_RESULT(f), main.cpp lines 21-29, applied to the application    *)
(* state s after f returned ok (VK_SUCCESS) or not: print the "Fatal" line *)
(* and assert.  assert() expands to nothing when NDEBUG is defined, so a   *)
(* release build prints and goes on.                                       *)
(***************************************************************************)
VK_CHECK_RESULT(s, ok) ==
    IF ok THEN s
    ELSE [s EXCEPT !.logged = @ + 1,
                   !.status = IF NDEBUG THEN "running" ELSE "aborted"]

(***************************************************************************)
(* The application state as one record, for the execution of a method.     *)
(* memReq is the local VkMemoryRequirements of the buffer-creating methods *)
(* (uninitialized until vkGetBufferMemoryRequirements has filled it).      *)
(***************************************************************************)
Pack ==
    [status |-> status, handle |-> handle, bound |-> bound, bindings |-> bindings,
     seedData |-> seedData, gpu |-> gpu, gpuSeed |-> gpuSeed, groups |-> groups,
     overlap |-> overlap, saved |-> saved, logged |-> logged, faults |-> faults,
     trace |-> trace, memReq |-> [filled |-> FALSE, bits |-> 0],
     method |-> IF step <= Len(RunSteps) THEN RunSteps[step] ELSE "main"]

\* memcpy(data, &newSeed, n): the first n bytes of the seed, two bytes a limb.
CopyBytes(seed, n) == SubSeq(seed, 1, n \div 2)

\* What a call that succeeded does besides creating and destroying handles.
Effect(s, c, env) ==
    CASE c.effect = "memReq" -> [s EXCEPT !.memReq = [filled |-> TRUE, bits |-> hw.typeBits]]
      [] c.effect = "findMemoryType" ->
            LET bits == IF s.memReq.filled THEN s.memReq.bits ELSE env.garbage
            IN IF findMemoryType(bits, HostVisibleCoherent, hw.memTypes) = NoMemoryType
               THEN [s EXCEPT !.status = "thrown"]
               ELSE s
      [] c.effect = "bind" ->
            [s EXCEPT !.bound = @ \cup (c.uses \cap {"buffer", "seedBuffer"})]
      [] c.effect = "updateDescriptors" ->
            [s EXCEPT !.bindings = [b \in {0, 1} |-> IF b = 0 THEN "buffer" ELSE "seedBuffer"]]
      [] c.effect = "writeSeed" -> [s EXCEPT !.seedData = CopyBytes(env.seed, seedBufferSize)]
      [] c.effect = "dispatch" -> [s EXCEPT !.groups = DispatchGroups(WIDTH, HEIGHT)]
      [] c.effect = "submit" -> [s EXCEPT !.gpu = "running", !.gpuSeed = s.seedData]
      [] c.effect = "wait" -> [s EXCEPT !.gpu = IF @ = "running" THEN "complete" ELSE @]
      [] c.effect = "readOutput" -> [s EXCEPT !.overlap = @ \/ (s.gpu = "running")]
      [] c.effect = "save" -> [s EXCEPT !.saved = TRUE]
      [] OTHER -> s

(***************************************************************************)
(* One call c in state s.  A call given a handle that is not alive (never  *)
(* created, or destroyed) is undefined behaviour: it crashes the process   *)
(* (crash) or, at best, returns an error / does nothing.  A call given     *)
(* live handles returns a non-success status when inject says so.  A wait  *)
(* that returns an error has either lost the device (env.lost) or left the *)
(* dispatch running.                                                       *)
(***************************************************************************)
DoCall(s, c, inject, crash, env) ==
    LET valid == \A h \in c.uses : s.handle[h] = "alive"
        injected == valid /\ inject /\ c.canFail /\ s.faults < MaxFaults
        ok == valid /\ ~injected
        ev == [by |-> s.method, api |-> c.api, uses |-> c.uses, makes |-> c.makes, kills |-> c.kills,
               effect |-> c.effect, before |-> s.handle, ok |-> ok,
               error |-> c.canFail /\ ~ok,
               val |-> IF c.effect = "writeSeed"
                       THEN CopyBytes(env.seed, seedBufferSize) ELSE <<>>]
        s1 == [s EXCEPT !.trace = Append(@, ev)]
    IN IF ~valid /\ crash THEN [s1 EXCEPT !.status = "crashed"]
       ELSE IF ok THEN
            Effect([s1 EXCEPT !.handle =
                        [h \in Handles |-> IF h \in c.makes THEN "alive"
                                           ELSE IF h \in c.kills THEN "destroyed"
                                           ELSE @[h]]],
                   c, env)
       ELSE IF c.canFail THEN
            LET s2 == [s1 EXCEPT !.faults = IF injected THEN @ + 1 ELSE @,
                                 !.gpu = IF c.effect = "wait" /\ @ = "running" /\ env.lost
                                         THEN "lost" ELSE @]
            IN IF c.checked THEN VK_CHECK_RESULT(s2, FALSE) ELSE s2
       ELSE s1

RECURSIVE Exec(_, _, _, _, _, _)
Exec(s, body, i, failing, crashAt, env) ==
    IF i > Len(body) \/ s.status # "running" THEN s
    ELSE Exec(DoCall(s, body[i], i \in failing, i = crashAt, env),
              body, i + 1, failing, crashAt, env)

\* The sets of at most b positions among 1..n.
RECURSIVE Positions(_, _)
Positions(n, b) ==
    IF b <= 0 THEN {{}}
    ELSE LET P == Positions(n, b - 1)
         IN P \cup {S \cup {i} : S \in P, i \in 1..n}

(***************************************************************************)
(* Inputs of the main specification.                                       *)
(***************************************************************************)
\* Clock readings (64-bit tick counts as limbs) of generateSeed().
ClockReadings == {<<7, 0, 0, 0>>, <<7, 1, 0, 0>>, <<7, 0, 1, 0>>}

\* What the device reports for a buffer: memoryTypeBits and memoryTypes[].
HwConfigs ==
    {[typeBits |-> 7,
      memTypes |-> <<VK_MEMORY_PROPERTY_DEVICE_LOCAL_BIT, HostVisibleCoherent,
                     VK_MEMORY_PROPERTY_HOST_VISIBLE_BIT>>],
     [typeBits |-> 5,
      memTypes |-> <<VK_MEMORY_PROPERTY_DEVICE_LOCAL_BIT, HostVisibleCoherent,
                     HostVisibleCoherent + VK_MEMORY_PROPERTY_DEVICE_LOCAL_BIT>>],
     [typeBits |-> 1,
      memTypes |-> <<VK_MEMORY_PROPERTY_DEVICE_LOCAL_BIT, HostVisibleCoherent>>]}

\* Contents of an uninitialized VkMemoryRequirements::memoryTypeBits.
GarbageBits == {0, 2}

\* The contents of a buffer nothing has been written to.
NoData == <<>>

SideIdle ==
    /\ clock = [now |-> <<0, 0, 0, 0>>, advances |-> 0]
    /\ readings = <<>>
    /\ dims = <<WIDTH, HEIGHT>>
    /\ counts = <<>>
    /\ query = [typeBits |-> 0, properties |-> 0, memTypes |-> <<0>>]
    /\ answer = [done |-> FALSE, index |-> NoMemoryType]

MainIdle ==
    /\ step = 1
    /\ status = "running"
    /\ handle = [h \in Handles |-> "none"]
    /\ bound = {}
    /\ bindings = [b \in {0, 1} |-> "none"]
    /\ seedData = NoData
    /\ gpu = "idle"
    /\ gpuSeed = NoData
    /\ groups = <<>>
    /\ overlap = FALSE
    /\ saved = FALSE
    /\ logged = 0
    /\ faults = 0
    /\ trace = <<>>

\* main(), line 192: "ComputeApplication app;" before app.run().
Init ==
    /\ NDEBUG \in BOOLEAN
    /\ hw \in HwConfigs
    /\ MainIdle
    /\ SideIdle

Commit(r) ==
    /\ status' = r.status
    /\ handle' = r.handle
    /\ bound' = r.bound
    /\ bindings' = r.bindings
    /\ seedData' = r.seedData
    /\ gpu' = r.gpu
    /\ gpuSeed' = r.gpuSeed
    /\ groups' = r.groups
    /\ overlap' = r.overlap
    /\ saved' = r.saved
    /\ logged' = r.logged
    /\ faults' = r.faults
    /\ trace' = r.trace
    /\ step' = IF r.status = "running" THEN step + 1 ELSE step
    /\ UNCHANGED <<NDEBUG, hw, sideVars>>

\* run() is about to call the method `name`.
AtStep(name) ==
    /\ status = "running"
    /\ step <= Len(RunSteps)
    /\ RunSteps[step] = name

\* The outcomes of the calls of a method body: which calls return a non-success
\* status, and at which call undefined behaviour (if any) crashes the process.
Outcomes(body) ==
    [failing : Positions(Len(body), MaxFaults - faults), crashAt : 0..Len(body)]

\* The whole method: its calls in order, until one ends the run.
Run(body, o, env) == Exec(Pack, body, 1, o.failing, o.crashAt, env)

\* What a method takes from outside: the seed generated for it, the contents of
\* its uninitialized locals, whether a failed wait means the device is lost.
Env(sd, g, lost) == [seed |-> sd, garbage |-> g, lost |-> lost]
NoEnv == Env(NoData, 0, FALSE)

createInstance ==
    /\ AtStep("createInstance")
    /\ \E o \in Outcomes(createInstanceBody) :
          Commit(Run(createInstanceBody, o, NoEnv))

findPhysicalDevice ==
    /\ AtStep("findPhysicalDevice")
    /\ \E o \in Outcomes(findPhysicalDeviceBody) :
          Commit(Run(findPhysicalDeviceBody, o, NoEnv))

createDevice ==
    /\ AtStep("createDevice")
    /\ \E o \in Outcomes(createDeviceBody) :
          Commit(Run(createDeviceBody, o, NoEnv))

createBuffer ==
    /\ AtStep("createBuffer")
    /\ \E o \in Outcomes(createBufferBody), g \in GarbageBits :
          Commit(Run(createBufferBody, o, Env(NoData, g, FALSE)))

createSeedBuffer ==
    /\ AtStep("createSeedBuffer")
    /\ \E o \in Outcomes(createSeedBufferBody), g \in GarbageBits :
          Commit(Run(createSeedBufferBody, o, Env(NoData, g, FALSE)))

createDescriptorSetLayout ==
    /\ AtStep("createDescriptorSetLayout")
    /\ \E o \in Outcomes(createDescriptorSetLayoutBody) :
          Commit(Run(createDescriptorSetLayoutBody, o, NoEnv))

createDescriptorSet ==
    /\ AtStep("createDescriptorSet")
    /\ \E o \in Outcomes(createDescriptorSetBody) :
          Commit(Run(createDescriptorSetBody, o, NoEnv))

createComputePipeline ==
    /\ AtStep("createComputePipeline")
    /\ \E o \in Outcomes(createComputePipelineBody) :
          Commit(Run(createComputePipelineBody, o, NoEnv))

createCommandBuffer ==
    /\ AtStep("createCommandBuffer")
    /\ \E o \in Outcomes(createCommandBufferBody) :
          Commit(Run(createCommandBufferBody, o, NoEnv))

\* line 179: newSeed = generateSeed(), at whatever the clock reads then.
runCommandBuffer ==
    /\ AtStep("runCommandBuffer")
    /\ \E o \in Outcomes(runCommandBufferBody), t \in ClockReadings, lost \in BOOLEAN :
          Commit(Run(runCommandBufferBody, o, Env(generateSeed(t), 0, lost)))

saveRenderedImage ==
    /\ AtStep("saveRenderedImage")
    /\ \E o \in Outcomes(saveRenderedImageBody) :
          Commit(Run(saveRenderedImageBody, o, NoEnv))

cleanup ==
    /\ AtStep("cleanup")
    /\ \E o \in Outcomes(cleanupBody) :
          Commit(Run(cleanupBody, o, NoEnv))

\* main(), lines 194 and 199: run() returned, return EXIT_SUCCESS.
mainReturn ==
    /\ status = "running"
    /\ step = Len(RunSteps) + 1
    /\ status' = "exit_success"
    /\ UNCHANGED <<NDEBUG, hw, step, handle, bound, bindings, seedData, gpu, gpuSeed,
                   groups, overlap, saved, logged, faults, trace, sideVars>>

\* main(), lines 195-198: a std::runtime_error is caught, return EXIT_FAILURE.
mainCatch ==
    /\ status = "thrown"
    /\ status' = "exit_failure"
    /\ UNCHANGED <<NDEBUG, hw, step, handle, bound, bindings, seedData, gpu, gpuSeed,
                   groups, overlap, saved, logged, faults, trace, sideVars>>

Next ==
    \/ createInstance
    \/ findPhysicalDevice
    \/ createDevice
    \/ createBuffer
    \/ createSeedBuffer
    \/ createDescriptorSetLayout
    \/ createDescriptorSet
    \/ createComputePipeline
    \/ createCommandBuffer
    \/ runCommandBuffer
    \/ saveRenderedImage
    \/ cleanup
    \/ mainReturn
    \/ mainCatch

Spec == Init /\ [][Next]_vars

(***************************************************************************)
(* SpecSeed: generateSeed() called at clock readings that move forward.    *)
(***************************************************************************)
\* 64-bit tick counts as limbs: a + b modulo 2^64, and a - b for a >= b.
RECURSIVE AddLimbs(_, _, _, _)
AddLimbs(a, b, i, carry) ==
    IF i > Len(a) THEN <<>>
    ELSE LET sum == a[i] + b[i] + carry
         IN <<sum % LimbBase>> \o AddLimbs(a, b, i + 1, sum \div LimbBase)

AddTicks(a, b) == AddLimbs(a, b, 1, 0)

RECURSIVE SubLimbs(_, _, _, _)
SubLimbs(a, b, i, borrow) ==
    IF i > Len(a) THEN <<>>
    ELSE LET diff == a[i] - b[i] - borrow
         IN <<diff % LimbBase>> \o SubLimbs(a, b, i + 1, IF diff < 0 THEN 1 ELSE 0)

SubTicks(a, b) == SubLimbs(a, b, 1, 0)

StartTicks ==
    {<<0, 0, 0, 0>>, <<LimbBase - 1, LimbBase - 1, 0, 0>>, <<5, 0, 3, 0>>}

\* 1 tick, 2^16 ticks, 2^32 - 1 ticks, 2^32 ticks.
TickSteps ==
    {<<1, 0, 0, 0>>, <<0, 1, 0, 0>>, <<LimbBase - 1, LimbBase - 1, 0, 0>>, <<0, 0, 1, 0>>}

InitSeed ==
    /\ NDEBUG = FALSE
    /\ hw \in {h \in HwConfigs : h.typeBits = 7}
    /\ MainIdle
    /\ clock \in [now : StartTicks, advances : {0}]
    /\ readings = <<>>
    /\ dims = <<WIDTH, HEIGHT>>
    /\ counts = <<>>
    /\ query = [typeBits |-> 0, properties |-> 0, memTypes |-> <<0>>]
    /\ answer = [done |-> FALSE, index |-> NoMemoryType]

clockAdvance ==
    /\ clock.advances < MaxTicks
    /\ \E d \in TickSteps :
          clock' = [now |-> AddTicks(clock.now, d), advances |-> clock.advances + 1]
    /\ UNCHANGED <<mainVars, readings, dims, counts, query, answer>>

callGenerateSeed ==
    /\ Len(readings) < MaxCalls
    /\ readings' = Append(readings, [at |-> clock.now, seed |-> generateSeed(clock.now)])
    /\ UNCHANGED <<mainVars, clock, dims, counts, query, answer>>

NextSeed ==
    \/ clockAdvance
    \/ callGenerateSeed

SpecSeed == InitSeed /\ [][NextSeed]_vars

(***************************************************************************)
(* SpecDispatch: the workgroup counts of the dispatch for an image size.   *)
(***************************************************************************)
InitDispatch ==
    /\ NDEBUG = FALSE
    /\ hw \in {h \in HwConfigs : h.typeBits = 7}
    /\ MainIdle
    /\ dims \in ((1..MaxDim) \cup {WIDTH}) \X ((1..MaxDim) \cup {HEIGHT})
    /\ counts = <<>>
    /\ clock = [now |-> <<0, 0, 0, 0>>, advances |-> 0]
    /\ readings = <<>>
    /\ query = [typeBits |-> 0, properties |-> 0, memTypes |-> <<0>>]
    /\ answer = [done |-> FALSE, index |-> NoMemoryType]

recordDispatch ==
    /\ counts = <<>>
    /\ counts' = DispatchGroups(dims[1], dims[2])
    /\ UNCHANGED <<mainVars, clock, readings, dims, query, answer>>

NextDispatch == recordDispatch

SpecDispatch == InitDispatch /\ [][NextDispatch]_vars

(***************************************************************************)
(* SpecMemType: findMemoryType on synthetic bitmask / property tables.     *)
(***************************************************************************)
\* Property flag words of one memory type, and the requests made.
FlagWords ==
    {0, VK_MEMORY_PROPERTY_DEVICE_LOCAL_BIT, VK_MEMORY_PROPERTY_HOST_VISIBLE_BIT,
     HostVisibleCoherent, HostVisibleCoherent + VK_MEMORY_PROPERTY_DEVICE_LOCAL_BIT}

Requests ==
    {VK_MEMORY_PROPERTY_DEVICE_LOCAL_BIT, VK_MEMORY_PROPERTY_HOST_VISIBLE_BIT,
     HostVisibleCoherent}

InitMemType ==
    /\ NDEBUG = FALSE
    /\ hw \in {h \in HwConfigs : h.typeBits = 7}
    /\ MainIdle
    /\ \E n \in 1..MaxMemTypes :
          query \in [typeBits : 0..(2^MaxMemTypes - 1), properties : Requests,
                     memTypes : [1..n -> FlagWords]]
    /\ answer = [done |-> FALSE, index |-> NoMemoryType]
    /\ clock = [now |-> <<0, 0, 0, 0>>, advances |-> 0]
    /\ readings = <<>>
    /\ dims = <<WIDTH, HEIGHT>>
    /\ counts = <<>>

callFindMemoryType ==
    /\ ~answer.done
    /\ answer' = [done |-> TRUE,
                  index |-> findMemoryType(query.typeBits, query.properties, query.memTypes)]
    /\ UNCHANGED <<mainVars, clock, readings, dims, counts, query>>

NextMemType == callFindMemoryType

SpecMemType == InitMemType /\ [][NextMemType]_vars

(***************************************************************************)
(* Properties.                                                             *)
(***************************************************************************)
Calls(apis) == {i \in DOMAIN trace : trace[i].api \in apis}
CallsOn(apis, hs) == {i \in Calls(apis) : trace[i].uses \cap hs # {}}

ReadBacks == CallsOn({"vkMapMemory", "readPixels"}, {"bufferMemory", "bufferMapping"})
Submits == Calls({"vkQueueSubmit"})
Waits == Calls({"vkQueueWaitIdle"})
SeedUploads ==
    CallsOn({"vkMapMemory", "memcpy", "vkUnmapMemory"}, {"seedBufferMemory", "seedMapping"})
Errors == {i \in DOMAIN trace : trace[i].error}

\* C1: every map or read of the output buffer comes after a wait on the queue
\* that returned, itself after the submit of the command buffer, and the host
\* never reads the output buffer while the GPU is still running the dispatch.
C1_ReadBackAfterWait ==
    /\ \A r \in ReadBacks :
          \E w \in Waits : /\ w < r
                           /\ \E sb \in Submits : sb < w
    /\ ~overlap

ShownMethods ==
    {"createSeedBuffer", "createDescriptorSetLayout", "createDescriptorSet",
     "runCommandBuffer"}
ShownHandles ==
    {"seedBuffer", "seedBufferMemory", "descriptorSetLayout", "descriptorPool",
     "descriptorSet"}
ShownErrors ==
    {i \in Errors : /\ trace[i].by \in ShownMethods
                     /\ \A h \in trace[i].uses : trace[i].before[h] = "alive"}

\* C3 (for the calls of the methods main.cpp shows): a call that returns a
\* non-success status is the last thing the run does: the status is logged and
\* the process is aborted there, in either build.
C3_FailureIsFatal ==
    \A i \in ShownErrors : /\ i = Len(trace)
                           /\ status = "aborted"
                           /\ logged = 1

\* C4 (for the seed buffer, whose creation main.cpp shows): whenever a method
\* of run() has completed, the seed buffer is alive exactly when its memory is,
\* and once teardown is over the buffer and its memory have each been created
\* once and destroyed once.
BufferObjects == {"seedBuffer", "seedBufferMemory"}
Created(h) == Cardinality({i \in DOMAIN trace : trace[i].ok /\ h \in trace[i].makes})
Destroyed(h) == Cardinality({i \in DOMAIN trace : trace[i].ok /\ h \in trace[i].kills})
C4_BufferMemoryPaired ==
    status \in {"running", "exit_success"} =>
        /\ handle["seedBuffer"] = "alive" <=> handle["seedBufferMemory"] = "alive"
        /\ step = Len(RunSteps) + 1 =>
              \A h \in BufferObjects : Created(h) = 1 /\ Destroyed(h) = 1

\* C5: the pipeline is destroyed before the pipeline layout, the layout before
\* the device, the device before the instance; nothing is destroyed while
\* something created from it (or bound to it) is alive; none of them outlives
\* cleanup; and no call is given a handle that has been destroyed.
Kills(h) == {i \in DOMAIN trace : trace[i].ok /\ h \in trace[i].kills}
Before(a, b) == \A i \in Kills(a) : \A j \in Kills(b) : i < j
DependsOn(d) ==
    UNION {trace[i].uses : i \in {j \in DOMAIN trace : trace[j].ok /\ d \in trace[j].makes}}
    \cup UNION {trace[i].uses \ {d} :
                   i \in {j \in DOMAIN trace : /\ trace[j].ok
                                               /\ trace[j].effect = "bind"
                                               /\ d \in trace[j].uses \cap {"buffer", "seedBuffer"}}}
C8_ExitCodes ==
    /\ status = "exit_success" => step = Len(RunSteps) + 1
    /\ status = "exit_failure" => step <= Len(RunSteps)
    /\ status = "exit_success" => ShownErrors = {}

\* C10 (for the handles created by the methods main.cpp shows): every such
\* handle given to a call, along with live handles of the other methods, is
\* alive at that call; the descriptor set binds 0 to
\* the pixel buffer and 1 to the seed buffer, both with memory bound; cleanup
\* is the last step and runs after the image is saved.
C10_HandlesAliveAtUse ==
    /\ \A i \in DOMAIN trace :
          (\A h \in trace[i].uses \ ShownHandles : trace[i].before[h] = "alive")
             => \A h \in trace[i].uses \cap ShownHandles : trace[i].before[h] = "alive"
    /\ \A i \in Calls({"vkUpdateDescriptorSets"}) :
          trace[i].ok /\ {"buffer", "seedBuffer"} \subseteq bound
    /\ Calls({"vkUpdateDescriptorSets"}) # {} =>
          bindings[0] = "buffer" /\ bindings[1] = "seedBuffer"
    /\ \A i \in Calls({"vkDestroyInstance"}) : saved /\ i = Len(trace)

(***************************************************************************)
(* Properties of the pure functions.                                       *)
(***************************************************************************)
\* C6: the recorded workgroup counts cover the image (count * 32 >= size) and
\* no smaller count does ((count - 1) * 32 < size), on both axes; for the
\* program's 3200 x 2400 image they are 100 x 75.
C6_GroupsCoverImage ==
    counts # <<>> =>
        /\ \A a \in {1, 2} : /\ counts[a] * 32 >= dims[a]
                             /\ (counts[a] - 1) * 32 < dims[a]
        /\ dims = <<WIDTH, HEIGHT>> => counts = <<100, 75>>

C6_Witness ==
    /\ counts # <<>>
    /\ dims[1] = WIDTH
    /\ dims[2] % 32 # 0

\* C7: the memory-type search returns the lowest index whose bit is set in the
\* type bitmask and whose property flags include every requested flag, and
\* reports failure exactly when no index qualifies.
HasBit(word, b) == (word \div 2^b) % 2 = 1
Qualifies(i) ==
    /\ HasBit(query.typeBits, i)
    /\ \A b \in 0..2 : HasBit(query.properties, b) => HasBit(query.memTypes[i + 1], b)
C7_LowestQualifyingIndex ==
    answer.done =>
        IF answer.index = NoMemoryType
        THEN \A i \in 0..(Len(query.memTypes) - 1) : ~Qualifies(i)
        ELSE /\ answer.index \in 0..(Len(query.memTypes) - 1)
             /\ Qualifies(answer.index)
             /\ \A j \in 0..(answer.index - 1) : ~Qualifies(j)

C7_Witness ==
    /\ answer.done
    /\ answer.index = 2
    /\ HasBit(query.typeBits, 0)
    /\ Qualifies(1) = FALSE /\ HasBit(query.typeBits, 1)

\* C9 as stated: two seeds generated at different clock readings differ.
C9_SeedsDifferAcrossTicks ==
    \A i, j \in DOMAIN readings :
        readings[i].at # readings[j].at => readings[i].seed # readings[j].seed

\* C9 amended: two seeds generated at clock readings at least one tick and
\* fewer than 2^32 ticks apart differ.
Apart(i, j) == SubTicks(readings[j].at, readings[i].at)
C9_SeedsDifferWithin32Bits ==
    \A i, j \in DOMAIN readings :
        (i < j /\ Apart(i, j) # <<0, 0, 0, 0>> /\ Apart(i, j)[3] = 0 /\ Apart(i, j)[4] = 0)
            => readings[i].seed # readings[j].seed

C9_Witness ==
    /\ Len(readings) >= 2
    /\ readings[1].at[3] # readings[2].at[3]
    /\ Apart(1, 2)[3] = 0 /\ Apart(1, 2)[4] = 0
    /\ readings[1].seed # readings[2].seed

====
